---- MODULE Spec2Model ----
(***************************************************************************)
(* Check-in.Vlk (src/app.py): attendance check-in with a photo, and the    *)
(* admin gallery with manual deletion.                                     *)
(*                                                                         *)
(* The database table "checkins", the storage bucket "photos", the clock,  *)
(* the devices that submit check-ins and one admin browser session are the *)
(* state.  A device's submission is split at its network calls (guard      *)
(* query, upload, insert) because other sessions run between them; one     *)
(* admin interaction is one run of the script.                             *)
(***************************************************************************)
EXTENDS Integers, Sequences, FiniteSets, TLC

VARIABLES
    now,            \* the clock, minutes, as a UTC instant
    checkins,       \* table "checkins": set of rows
    blobs,          \* bucket "photos": set of object keys
    nextId,         \* next checkins.id the database assigns
    used,           \* history: every key an upload has written
    sess,           \* the devices on the "Registro" tab
    guard_of,       \* history: row id -> nextId when that row's guard was evaluated
    admin_flag,     \* ?admin=1 on the admin session's URL
    admin_pwd,      \* the configured ADMIN_PASSWORD
    admin_ok,       \* st.session_state.admin_ok
    to_delete,      \* st.session_state.to_delete
    cb,             \* checkin ids whose "Excluir" checkbox (key del_<id>) is checked
    shown,          \* the (checkin_id, photo_path) pairs the admin session's last run rendered
    ready,          \* "Confirmo que revisei as seleções"
    filt,           \* the filter widgets: dt_from, dt_to, nome_like, limit
    commit_enabled, \* whether the last run rendered the commit button enabled
    last_run,       \* history: the login, the check of a box or the commit of the admin
                    \* session's last run, with its outcome
    faults,         \* backend calls that have raised so far
    lim,            \* the bounds of this run: clock, rows, faults, devices
    grp_in,         \* input of agrupar_por_usuario_dia (grouping runs)
    grp_out,        \* its result
    norm_out        \* the table before a call of normalize_storage_paths alone, and
                    \* the count it returned

vars == <<now, checkins, blobs, nextId, used, sess, guard_of, admin_flag, admin_pwd,
          admin_ok, to_delete, cb, shown, ready, filt, commit_enabled, last_run,
          faults, lim, grp_in, grp_out, norm_out>>

dbVars == <<checkins, blobs, nextId, used, guard_of>>
adminVars == <<admin_flag, admin_pwd, admin_ok, to_delete, cb, shown, ready, filt,
               commit_enabled, last_run>>
grpVars == <<lim, grp_in, grp_out, norm_out>>

----------------------------------------------------------------------------
(* Bounds *)

MaxTime == 1
MaxRows == 1
MaxFaults == 1
MaxClock == 32
MaxGrpLen == 2

(* Program constants *)

CooldownMin == 30
DayLen == 1440
TzOffset == 180
DefaultLimit == 2000

Null == "null"

Sessions == {"d1", "d2"}

\* table "users" (never changed by the operations modelled here)
Users == {[id |-> "u1", name |-> <<"a", "n">>, role |-> "prod"],
          [id |-> "u2", name |-> <<"b", "n">>, role |-> "adm"]}
UserIds == {u.id : u \in Users}
UserOf(uid) == CHOOSE u \in Users : u.id = uid

----------------------------------------------------------------------------
(* Time *)

\* datetime.astimezone(TIMEZONE): the wall clock of America/Belem (UTC-3)
ToLocal(t) == t - TzOffset
\* datetime.astimezone(UTC)
ToUTC(l) == l + TzOffset
agora == ToLocal(now)
\* strftime("%Y-%m-%d") of a local time
DayOf(l) == l \div DayLen
\* strftime("%H%M%S%f") of a local time
TimeOf(l) == l % DayLen

\* desired_path / the storage_path f-string: "{uid}/{day}/{time}.jpg"
desired_path(uid, l) == <<uid, DayOf(l), TimeOf(l)>>

----------------------------------------------------------------------------
(* Duplicate check-in guard *)

tem_checkin_recente_open(rows, user_id, minutos, now_local) ==
    LET start_utc == ToUTC(now_local - minutos)
        now_utc == ToUTC(now_local)
    IN \E r \in rows : /\ r.user_id = user_id
                       /\ r.created_at > start_utc
                       /\ r.created_at < now_utc

tem_checkin_recente(rows, user_id, minutos, now_local) ==
    LET start_utc == ToUTC(now_local - minutos)
        now_utc == ToUTC(now_local)
    IN \E r \in rows : /\ r.user_id = user_id
                       /\ r.created_at >= start_utc
                       /\ r.created_at < now_utc

----------------------------------------------------------------------------
(* A device on the "Registro" tab *)

NoPath == <<>>
IdleSess == [pc |-> "idle", user |-> Null, path |-> NoPath, g_next |-> 0]

GuardReserving(s, uid) ==
    /\ s \in lim.devices
    /\ sess[s].pc \in {"idle", "rejected"}
    /\ nextId <= lim.rows
    /\ ~tem_checkin_recente(checkins, uid, CooldownMin, agora)
    /\ checkins' = checkins \cup
            {[id |-> nextId, user_id |-> uid, photo_path |-> NoPath, created_at |-> now]}
    /\ nextId' = nextId + 1
    /\ sess' = [sess EXCEPT ![s] = [pc |-> "passed", user |-> uid, path |-> NoPath,
                                    g_next |-> nextId]]
    /\ UNCHANGED <<now, faults, blobs, used, guard_of, adminVars, grpVars>>

\* lines 348-351: the guard query of the run that handles the "Confirmar" click;
\* "rejected" is the run that ends with the error message of line 349.  The
\* clock reading of a run is later than the created_at of every row of the
\* user that is already in the table.
Guard(s, uid) ==
    /\ s \in lim.devices
    /\ \A c \in checkins : c.user_id = uid => c.created_at < now
    /\ sess[s].pc \in {"idle", "rejected"}
    /\ LET rej == tem_checkin_recente(checkins, uid, CooldownMin, agora)
       IN sess' = [sess EXCEPT ![s] =
                     [pc |-> IF rej THEN "rejected" ELSE "passed",
                      user |-> uid,
                      path |-> NoPath,
                      g_next |-> IF rej THEN 0 ELSE nextId]]
    /\ UNCHANGED <<now, faults, dbVars, adminVars, grpVars>>

\* lines 352-355: ts = agora(); the upload succeeds.  The key must be new in the
\* bucket, and the clock never gives two uploads of a user the same reading.
UploadOK(s) ==
    /\ sess[s].pc = "passed"
    /\ LET storage_path == desired_path(sess[s].user, agora)
       IN /\ storage_path \notin blobs \cup used
          /\ blobs' = blobs \cup {storage_path}
          /\ used' = used \cup {storage_path}
          /\ sess' = [sess EXCEPT ![s].pc = "uploaded", ![s].path = storage_path]
    /\ UNCHANGED <<now, faults, checkins, nextId, guard_of, adminVars, grpVars>>

\* lines 355, 358: the key exists in the bucket, upload raises
UploadExists(s) ==
    /\ sess[s].pc = "passed"
    /\ desired_path(sess[s].user, agora) \in blobs
    /\ sess' = [sess EXCEPT ![s].pc = "idle", ![s].user = Null, ![s].g_next = 0]
    /\ UNCHANGED <<now, faults, dbVars, adminVars, grpVars>>

UploadFailIgnored(s) ==
    /\ sess[s].pc = "passed"
    /\ faults < lim.faults
    /\ faults' = faults + 1
    /\ sess' = [sess EXCEPT ![s].pc = "uploaded",
                            ![s].path = desired_path(sess[s].user, agora)]
    /\ UNCHANGED <<now, dbVars, adminVars, grpVars>>

\* lines 355, 358: upload_photo raises for another reason; registrar_checkin is
\* not reached
UploadFail(s) ==
    /\ sess[s].pc = "passed"
    /\ faults < lim.faults
    /\ faults' = faults + 1
    /\ sess' = [sess EXCEPT ![s].pc = "idle", ![s].user = Null, ![s].g_next = 0]
    /\ UNCHANGED <<now, dbVars, adminVars, grpVars>>

\* line 356: registrar_checkin; created_at is assigned by the database
InsertOK(s) ==
    /\ sess[s].pc = "uploaded"
    /\ nextId <= lim.rows
    /\ checkins' = checkins \cup
            {[id |-> nextId, user_id |-> sess[s].user,
              photo_path |-> sess[s].path, created_at |-> now]}
    /\ guard_of' = [guard_of EXCEPT ![nextId] = sess[s].g_next]
    /\ nextId' = nextId + 1
    /\ sess' = [sess EXCEPT ![s].pc = "idle", ![s].user = Null,
                            ![s].path = NoPath, ![s].g_next = 0]
    /\ UNCHANGED <<now, faults, blobs, used, adminVars, grpVars>>

\* lines 356, 358: registrar_checkin raises; the uploaded object stays
InsertFail(s) ==
    /\ sess[s].pc = "uploaded"
    /\ faults < lim.faults
    /\ faults' = faults + 1
    /\ sess' = [sess EXCEPT ![s].pc = "idle", ![s].user = Null,
                            ![s].path = NoPath, ![s].g_next = 0]
    /\ UNCHANGED <<now, dbVars, adminVars, grpVars>>

Tick ==
    /\ now < lim.time
    /\ now' = now + 1
    /\ UNCHANGED <<faults, dbVars, sess, adminVars, grpVars>>

----------------------------------------------------------------------------
(* Query and grouping *)

\* str.lower() on the letters used here
Lower(c) == IF c = "A" THEN "a" ELSE IF c = "B" THEN "b" ELSE c
LowerSeq(s) == [i \in 1..Len(s) |-> Lower(s[i])]
\* Python's "termo in name"
Contains(hay, needle) ==
    \E i \in 0..(Len(hay) - Len(needle)) : SubSeq(hay, i + 1, i + Len(needle)) = needle

\* PostgREST renders a timestamptz as an ISO string; datetime.fromisoformat
\* parses it back or raises
IsoFormat(t) == <<"iso", t>>
IsIso(c) == c[1] = "iso"
fromisoformat(c) == c[2]
Unparseable == <<"bad">>

\* (r.get("users") or {}): every field missing; a missing or empty name is <<>>
NoUser == [id |-> Null, name |-> <<>>, role |-> Null]

\* the shape of one row of select("id, created_at, photo_path, user_id, users(id, name, role)")
JoinUser(r) ==
    [id |-> r.id, created_at |-> IsoFormat(r.created_at), photo_path |-> r.photo_path,
     user_id |-> r.user_id,
     users |-> IF r.user_id \in UserIds THEN UserOf(r.user_id) ELSE NoUser]

\* .order("created_at", desc=True); rows of equal created_at by id
RECURSIVE OrderDesc(_)
OrderDesc(S) ==
    IF S = {} THEN <<>>
    ELSE LET m == CHOOSE r \in S : \A q \in S :
                     \/ q.created_at < r.created_at
                     \/ (q.created_at = r.created_at /\ q.id <= r.id)
         IN <<m>> \o OrderDesc(S \ {m})

Take(s, n) == IF Len(s) <= n THEN s ELSE SubSeq(s, 1, n)

buscar_checkins(db, f) ==
    LET q1 == {r \in db : f.dt_from = <<>> \/ r.created_at >= f.dt_from[1] * DayLen}
        q2 == {r \in q1 : f.dt_to = <<>> \/ r.created_at <= f.dt_to[1] * DayLen + (DayLen - 1)}
        rows == Take(OrderDesc(q2), f.limit)
        joined == [i \in 1..Len(rows) |-> JoinUser(rows[i])]
        termo == LowerSeq(f.nome_like)
        NameOf(r) == LowerSeq(r.users.name)
    IN IF f.nome_like = <<>> THEN joined
       ELSE SelectSeq(joined, LAMBDA r : Contains(NameOf(r), termo))

\* a key that ignores the joined user
RowUidNoJoin(r) == r.user_id

\* uid = r.get("user_id") or u.get("id")
RowUid(r) == IF r.user_id # Null THEN r.user_id ELSE r.users.id

\* lines 195-199: the local time of created_at, or agora() when it does not parse
RowLocal(r, now_local) ==
    IF IsIso(r.created_at) THEN ToLocal(fromisoformat(r.created_at)) ELSE now_local

\* one turn of the loop of agrupar_por_usuario_dia (lines 187-205)
agrupar_step(grouped, r, now_local) ==
    LET uid == RowUid(r)
        dt_local == RowLocal(r, now_local)
        dia == DayOf(dt_local)
        item == [photo_path |-> r.photo_path, created_at |-> dt_local, checkin_id |-> r.id]
        old == IF uid \in DOMAIN grouped THEN grouped[uid].dias ELSE <<>>
        lst == IF dia \in DOMAIN old THEN old[dia] ELSE <<>>
        dias == (dia :> Append(lst, item)) @@ old
        entry == [name |-> IF r.users.name = <<>> THEN <<"-">> ELSE r.users.name,
                  role |-> IF r.users.role = Null THEN "-" ELSE r.users.role,
                  dias |-> dias]
    IN IF uid = Null THEN grouped ELSE (uid :> entry) @@ grouped

RECURSIVE agrupar_loop(_, _, _, _)
agrupar_loop(rows, i, grouped, now_local) ==
    IF i > Len(rows) THEN grouped
    ELSE agrupar_loop(rows, i + 1, agrupar_step(grouped, rows[i], now_local), now_local)

agrupar_por_usuario_dia(rows, now_local) == agrupar_loop(rows, 1, <<>>, now_local)

\* norm_out before the function has run
NoNorm == [done |-> FALSE, moved |-> 0, before |-> {}]

\* grp_out before the function has run
NoGroup == [done |-> FALSE, grouped |-> <<>>]

\* every item of a grouped view, as the render loop of lines 400-437 visits them
Items(grouped) ==
    UNION {UNION {{grouped[u].dias[d][k] : k \in 1..Len(grouped[u].dias[d])}
                  : d \in DOMAIN grouped[u].dias}
           : u \in DOMAIN grouped}

----------------------------------------------------------------------------
(* Storage reorganisation *)

\* lines 229-245 for one row: the outcomes of move / copy + remove / update.
\* move and copy need the source object and a free destination key.
normalize_row(st, r, now_local) ==
    LET uid == RowUid(r)
        current_path == r.photo_path
        new_path == desired_path(uid, RowLocal(r, now_local))
        can == current_path \in st.bl /\ new_path \notin st.bl
        movedBl == (st.bl \ {current_path}) \cup {new_path}
        updDb == {IF c.id = r.id THEN [c EXCEPT !.photo_path = new_path] ELSE c : c \in st.db}
    IN IF uid = Null \/ current_path = new_path THEN {st}
       ELSE IF ~can THEN {st}                          \* move and copy raise
       ELSE {[st EXCEPT !.db = updDb, !.bl = movedBl, !.moved = st.moved + 1],
             [st EXCEPT !.raised = st.raised + 1],                       \* move and copy raise
             [st EXCEPT !.bl = movedBl, !.raised = st.raised + 1],       \* update raises
             [st EXCEPT !.db = updDb, !.bl = movedBl,                    \* update raises,
                        !.raised = st.raised + 1],                       \* having taken effect
             [st EXCEPT !.bl = st.bl \cup {new_path},                    \* remove raises
                        !.raised = st.raised + 1]}

RECURSIVE normalize_loop(_, _, _, _)
normalize_loop(rows, i, sts, now_local) ==
    IF i > Len(rows) THEN sts
    ELSE normalize_loop(rows, i + 1,
                        UNION {normalize_row(st, rows[i], now_local) : st \in sts},
                        now_local)

\* the possible results of normalize_storage_paths(rows)
normalize_storage_paths(rows, db, bl, now_local) ==
    normalize_loop(rows, 1, {[db |-> db, bl |-> bl, moved |-> 0, raised |-> 0]}, now_local)

----------------------------------------------------------------------------
(* The admin session *)

\* a gate without the test of line 271 (an unset ADMIN_PASSWORD)
admin_gate_ok_any(flag, ok, pwd_cfg, click) ==
    IF ~flag THEN ok
    ELSE IF ok THEN TRUE
    ELSE click.kind = "login" /\ click.pwd = pwd_cfg

\* lines 263-279, 365: admin_ok after admin_gate(), given the click of this run
admin_gate_ok(flag, ok, pwd_cfg, click) ==
    IF ~flag THEN ok
    ELSE IF ok THEN TRUE
    ELSE click.kind = "login" /\ pwd_cfg # "" /\ click.pwd = pwd_cfg

\* line 365: admin_gate() and is_admin()
panel_on(flag, ok) == flag /\ ok

\* lines 431-436 over every rendered item
RenderSel(items, sel, checked) ==
    (sel \cup {<<it.checkin_id, it.photo_path>> : it \in {x \in items : x.checkin_id \in checked}})
        \ {<<it.checkin_id, it.photo_path>> : it \in {x \in items : x.checkin_id \notin checked}}

\* a button that ignores the confirmation checkbox
CommitDisabledNoConfirm(rdy, sel) == Cardinality(sel) = 0

\* line 451: disabled=not ready or len(to_delete) == 0
CommitDisabled(rdy, sel) == ~rdy \/ Cardinality(sel) = 0

\* a handler that clears the selection in a finally clause
commit_selected_clearing(sel, db, bl) ==
    LET ids == {p[1] : p \in sel}
        paths == {p[2] : p \in sel}
        db1 == {c \in db : c.id \notin ids}
    IN (IF ids # {} THEN
           {[db |-> d, bl |-> bl, sel |-> {}, result |-> "db_fail", raised |-> 1]
               : d \in {db, db1}}
        ELSE {})
       \cup (IF paths # {} THEN
           {[db |-> db1, bl |-> bl \ rm, sel |-> {}, result |-> "storage_fail", raised |-> 1]
               : rm \in SUBSET (paths \cap bl)}
        ELSE {})
       \cup {[db |-> db1, bl |-> bl \ paths, sel |-> {}, result |-> "ok", raised |-> 0]}

\* lines 452-465: the outcomes of the handler of "Excluir selecionadas".
\* A call that raises may or may not have taken effect on the server.
commit_selected(sel, db, bl) ==
    LET ids == {p[1] : p \in sel}
        paths == {p[2] : p \in sel}
        db1 == {c \in db : c.id \notin ids}
    IN (IF ids # {} THEN
           {[db |-> d, bl |-> bl, sel |-> sel, result |-> "db_fail", raised |-> 1]
               : d \in {db, db1}}
        ELSE {})
       \cup (IF paths # {} THEN
           {[db |-> db1, bl |-> bl \ rm, sel |-> sel, result |-> "storage_fail", raised |-> 1]
               : rm \in SUBSET (paths \cap bl)}
        ELSE {})
       \cup {[db |-> db1, bl |-> bl \ paths, sel |-> {}, result |-> "ok", raised |-> 0]}

NoRun == [kind |-> "none"]
\* the widgets' defaults (lines 371-378); <<>> is None, <<d>> the date d
NoFilter == [dt_from |-> <<>>, dt_to |-> <<>>, nome_like |-> <<>>, limit |-> DefaultLimit]

\* One run of the script in the admin session, for one widget event `click`
\* (lines 251-279 and 365-465).
AdminRun(click) ==
    /\ admin_ok' = admin_gate_ok(admin_flag, admin_ok, admin_pwd, click)
    /\ UNCHANGED <<now, sess, nextId, used, guard_of, admin_flag, admin_pwd, grpVars>>
    /\ IF ~panel_on(admin_flag, admin_ok') THEN
          \* no widget of the panel is rendered: their state is dropped
          /\ cb' = {} /\ shown' = {} /\ ready' = FALSE /\ filt' = NoFilter
          /\ commit_enabled' = FALSE
          /\ last_run' = NoRun
          /\ UNCHANGED <<to_delete, checkins, blobs, faults>>
       ELSE
          /\ filt' = IF click.kind = "filter" THEN click.f ELSE filt
          /\ \E rows \in {buscar_checkins(checkins, filt')} :
             \E st \in (IF click.kind = "organize"
                        THEN normalize_storage_paths(rows, checkins, blobs, agora)
                        ELSE {[db |-> checkins, bl |-> blobs, moved |-> 0, raised |-> 0]}) :
             \E done \in {IF click.kind = "login" /\ ~admin_ok THEN click ELSE NoRun} :
               IF rows = <<>> THEN
                  \* line 391: nothing below is rendered
                  /\ cb' = {} /\ shown' = {} /\ ready' = FALSE /\ commit_enabled' = FALSE
                  /\ checkins' = st.db /\ blobs' = st.bl
                  /\ faults' = faults + st.raised
                  /\ last_run' = done
                  /\ UNCHANGED to_delete
               ELSE
                  \E items \in {Items(agrupar_por_usuario_dia(rows, agora))} :
                  \E checked \in {IF click.kind = "toggle"
                                  THEN (IF click.id \in cb THEN cb \ {click.id}
                                        ELSE cb \cup {click.id})
                                  ELSE cb} :
                  \E sel \in {RenderSel(items, to_delete, checked)} :
                     /\ shown' = {<<it.checkin_id, it.photo_path>> : it \in items}
                     /\ cb' = checked \cap {it.checkin_id : it \in items}
                     /\ ready' = IF click.kind = "ready" THEN ~ready ELSE ready
                     /\ commit_enabled' = ~CommitDisabled(ready', sel)
                     /\ IF click.kind = "commit" THEN
                           \E out \in commit_selected(sel, st.db, st.bl) :
                              /\ checkins' = out.db /\ blobs' = out.bl
                              /\ to_delete' = out.sel
                              /\ faults' = faults + st.raised + out.raised
                              /\ last_run' = [kind |-> "commit", sel |-> sel,
                                              result |-> out.result]
                        ELSE
                           /\ checkins' = st.db /\ blobs' = st.bl
                           /\ to_delete' = sel
                           /\ faults' = faults + st.raised
                           /\ last_run' = IF click.kind = "toggle" /\ click.id \in checked
                                          THEN [kind |-> "toggle", id |-> click.id,
                                                before |-> to_delete]
                                          ELSE done
    /\ faults' <= lim.faults

Passwords == {"", "segredo", "errada"}
FilterChoices == {NoFilter, [NoFilter EXCEPT !.nome_like = <<"A">>]}

\* a page load or any rerun that changes no widget of the panel
Rerun == AdminRun([kind |-> "none"])
\* lines 270-278: "Entrar"
Login(pwd) == admin_flag /\ ~admin_ok /\ AdminRun([kind |-> "login", pwd |-> pwd])
\* lines 371-378: the filter widgets
SetFilter(f) == panel_on(admin_flag, admin_ok) /\ f # filt
                /\ AdminRun([kind |-> "filter", f |-> f])
\* line 431: an "Excluir" checkbox of the last render
ToggleExcluir(i) == i \in {p[1] : p \in shown} /\ AdminRun([kind |-> "toggle", id |-> i])
\* line 449
ToggleReady == shown # {} /\ AdminRun([kind |-> "ready"])
\* line 386: "Executar organização agora"
Organize == panel_on(admin_flag, admin_ok) /\ AdminRun([kind |-> "organize"])
\* line 451: the button as the last run rendered it
ClickCommit == commit_enabled /\ AdminRun([kind |-> "commit"])


----------------------------------------------------------------------------
\* the state after the script's first lines, for the bounds `l`
Fresh(l) ==
    /\ lim = l
    /\ checkins = {}
    /\ blobs = {}
    /\ nextId = 1
    /\ used = {}
    /\ sess = [s \in Sessions |-> IdleSess]
    /\ guard_of = [i \in 1..l.rows |-> 0]
    /\ admin_flag \in BOOLEAN
    /\ admin_pwd \in {"", "segredo"}
    /\ admin_ok = FALSE
    /\ to_delete = {}
    /\ cb = {}
    /\ shown = {}
    /\ ready = FALSE
    /\ filt = NoFilter
    /\ commit_enabled = FALSE
    /\ last_run = NoRun
    /\ faults = 0
    /\ grp_out = NoGroup
    /\ norm_out = NoNorm

\* the clock at its origin, and no grouping to do
Start(l) == Fresh(l) /\ now = 0 /\ grp_in = <<>>

\* one device and the admin session
Init == Start([time |-> MaxTime, rows |-> MaxRows, faults |-> MaxFaults, devices |-> {"d1"}])

\* two devices and the admin session logged in, one more row and one more
\* minute, and no call that raises
InitRace ==
    /\ Start([time |-> MaxTime + 1, rows |-> MaxRows + 1, faults |-> 0,
              devices |-> Sessions])
    /\ admin_flag /\ admin_pwd = "segredo"

\* two devices, no admin session
InitCheckin ==
    /\ Start([time |-> MaxTime, rows |-> MaxRows + 1, faults |-> MaxFaults,
              devices |-> Sessions])
    /\ ~admin_flag /\ admin_pwd = ""

Device ==
    \/ Tick
    \/ \E s \in Sessions, uid \in UserIds : Guard(s, uid)
    \/ \E s \in Sessions : UploadOK(s)
    \/ \E s \in Sessions : UploadExists(s)
    \/ \E s \in Sessions : UploadFail(s)
    \/ \E s \in Sessions : InsertOK(s)
    \/ \E s \in Sessions : InsertFail(s)

Next ==
    \/ Tick
    \/ \E s \in Sessions, uid \in UserIds : Guard(s, uid)
    \/ \E s \in Sessions : UploadOK(s)
    \/ \E s \in Sessions : UploadExists(s)
    \/ \E s \in Sessions : UploadFail(s)
    \/ \E s \in Sessions : InsertOK(s)
    \/ \E s \in Sessions : InsertFail(s)
    \/ Rerun
    \/ \E pwd \in Passwords : Login(pwd)
    \/ \E f \in FilterChoices : SetFilter(f)
    \/ \E i \in 1..lim.rows : ToggleExcluir(i)
    \/ ToggleReady
    \/ Organize
    \/ ClickCommit

\* The grouping alone: rows as a query may return them, and rows that it should
\* not (no user_id but a joined user, a created_at that does not parse)
GroupStamps == {IsoFormat(100), IsoFormat(200), IsoFormat(1700), Unparseable}
GroupClocks == {3100, 4500}
GroupRows(i) ==
    {[id |-> i, created_at |-> c, photo_path |-> <<"legacy", i>>, user_id |-> uid, users |-> u]
        : c \in GroupStamps, uid \in {Null} \cup UserIds, u \in {NoUser} \cup Users}
GroupInputs ==
    UNION {{s \in [1..n -> UNION {GroupRows(i) : i \in 1..n}] : \A i \in 1..n : s[i].id = i}
           : n \in 0..MaxGrpLen}

InitGroup ==
    /\ Fresh([time |-> MaxTime, rows |-> MaxRows, faults |-> 0, devices |-> {}])
    /\ ~admin_flag /\ admin_pwd = ""
    /\ now \in GroupClocks
    /\ grp_in \in GroupInputs

\* lines 184-206: one call of agrupar_por_usuario_dia(rows)
Agrupar ==
    /\ ~grp_out.done
    /\ grp_out' = [done |-> TRUE, grouped |-> agrupar_por_usuario_dia(grp_in, agora)]
    /\ UNCHANGED <<now, faults, dbVars, sess, adminVars, lim, grp_in, norm_out>>

\* The reorganisation alone: a table of rows whose objects are in the bucket
\* under the keys their uploads gave them, ts <= created_at
NormRows(i) ==
    {[id |-> i, user_id |-> uid, created_at |-> c, photo_path |-> desired_path(uid, ToLocal(ts))]
        : uid \in UserIds, c \in 0..(MaxTime + 1), ts \in 0..(MaxTime + 1)}
NormRowsOf(i) ==
    {r \in NormRows(i) : \E ts \in 0..r.created_at :
                             r.photo_path = desired_path(r.user_id, ToLocal(ts))}
NormTables ==
    UNION {{{s[i] : i \in 1..n} : s \in {q \in [1..n -> UNION {NormRowsOf(i) : i \in 1..n}] :
                                            /\ \A i \in 1..n : q[i].id = i
                                            /\ \A i, j \in 1..n :
                                                  q[i].photo_path = q[j].photo_path => i = j}}
           : n \in 0..(MaxRows + 1)}

InitNorm ==
    /\ lim = [time |-> MaxTime + 1, rows |-> MaxRows + 1, faults |-> MaxFaults,
              devices |-> {}]
    /\ checkins \in NormTables
    /\ blobs = {c.photo_path : c \in checkins}
    /\ used = blobs
    /\ now = MaxTime + 1
    /\ nextId = Cardinality(checkins) + 1
    /\ sess = [s \in Sessions |-> IdleSess]
    /\ guard_of = [i \in 1..lim.rows |-> 0]
    /\ admin_flag = FALSE /\ admin_pwd = "" /\ admin_ok = FALSE
    /\ to_delete = {} /\ cb = {} /\ shown = {} /\ ready = FALSE /\ filt = NoFilter
    /\ commit_enabled = FALSE /\ last_run = NoRun /\ faults = 0
    /\ grp_in = <<>> /\ grp_out = NoGroup /\ norm_out = NoNorm

\* lines 214-246: one call of normalize_storage_paths(rows), rows being the
\* result of buscar_checkins with the default filters (line 381)
Normalizar ==
    /\ ~norm_out.done
    /\ \E st \in normalize_storage_paths(buscar_checkins(checkins, NoFilter),
                                          checkins, blobs, agora) :
          /\ st.raised <= lim.faults
          /\ checkins' = st.db
          /\ blobs' = st.bl
          /\ faults' = st.raised
          /\ norm_out' = [done |-> TRUE, moved |-> st.moved, before |-> checkins]
    /\ UNCHANGED <<now, nextId, used, guard_of, sess, adminVars, lim, grp_in, grp_out>>

\* the steps that need no call to raise, for one user
NextRace ==
    \/ Tick
    \/ \E s \in Sessions : Guard(s, "u1")
    \/ \E s \in Sessions : UploadOK(s)
    \/ \E s \in Sessions : UploadExists(s)
    \/ \E s \in Sessions : InsertOK(s)
    \/ Login(admin_pwd)
    \/ \E i \in 1..lim.rows : ToggleExcluir(i)
    \/ ToggleReady
    \/ Organize
    \/ ClickCommit

Spec == Init /\ [][Next]_vars
SpecGroup == InitGroup /\ [][Agrupar]_vars
SpecNorm == InitNorm /\ [][Normalizar]_vars
SpecRace == InitRace /\ [][NextRace]_vars
SpecCheckin == InitCheckin /\ [][Device]_vars

----------------------------------------------------------------------------
(* The guard alone: a user whose only check-in is at T, asked at any later minute *)

GuardRow(T) == [id |-> 1, user_id |-> "u1", photo_path |-> desired_path("u1", ToLocal(T)),
                created_at |-> T]

InitGuard ==
    /\ lim = [time |-> MaxClock, rows |-> MaxRows + 1, faults |-> 0, devices |-> Sessions]
    /\ \E T \in {0, 1} :
          /\ checkins = {GuardRow(T)}
          /\ blobs = {GuardRow(T).photo_path}
          /\ used = blobs
          /\ now \in T..MaxClock
    /\ nextId = 2
    /\ sess = [s \in Sessions |-> IdleSess]
    /\ guard_of = [i \in 1..lim.rows |-> IF i = 1 THEN 1 ELSE 0]
    /\ admin_flag = FALSE /\ admin_pwd = "" /\ admin_ok = FALSE
    /\ to_delete = {} /\ cb = {} /\ shown = {} /\ ready = FALSE /\ filt = NoFilter
    /\ commit_enabled = FALSE /\ last_run = NoRun /\ faults = 0
    /\ grp_in = <<>> /\ grp_out = NoGroup /\ norm_out = NoNorm

NextGuard == \E s \in Sessions, uid \in UserIds : Guard(s, uid)

SpecGuard == InitGuard /\ [][NextGuard]_vars

\* the device whose last guard query, made at `now`, was for the owner of row r
Asked(s, r) == sess[s].pc \in {"rejected", "passed"} /\ sess[s].user = r.user_id

InWindow(r, t) == t - CooldownMin <= r.created_at /\ r.created_at < t

----------------------------------------------------------------------------
(* The submission handler (two devices, no admin session) *)

Added == checkins' \ checkins
UploadEnds(s) == sess[s].pc = "passed" /\ sess'[s].pc = "idle"
InsertEnds(s) == sess[s].pc = "uploaded" /\ sess'[s].pc = "idle"

\* C4: the upload precedes the insert and the insert is attempted only after the
\* upload succeeded.  A step creates at most one row; the row is created by the
\* device that had uploaded its photo, names that object, and the object exists
\* at that moment; a submission whose upload fails creates no row; one whose
\* insert fails creates no row and leaves an object that no row names.
C4_UploadThenInsert ==
    [][/\ Cardinality(Added) <= 1
       /\ \A c \in Added : \E s \in Sessions :
             /\ InsertEnds(s)
             /\ c.photo_path = sess[s].path /\ c.user_id = sess[s].user
             /\ c.photo_path \in blobs /\ c.photo_path \in blobs'
       /\ \A s \in Sessions : UploadEnds(s) => Added = {} /\ blobs' = blobs
       /\ \A s \in Sessions : InsertEnds(s) =>
             \/ Cardinality(Added) = 1
             \/ /\ Added = {}
                /\ sess[s].path \in blobs'
                /\ \A c \in checkins' : c.photo_path # sess[s].path
      ]_vars

\* a submission whose insert failed left an object that no row names, next to a
\* row of a submission that succeeded
C4_Witness ==
    /\ \E p \in blobs : \A c \in checkins : c.photo_path # p
    /\ \E c \in checkins : c.photo_path \in blobs
    /\ faults > 0

\* C5: the guard query is a pure read: it writes no row and no object and leaves
\* the other devices as they are, so nothing is reserved for the device that
\* passed it.
C5_GuardPureRead ==
    [][\A s \in Sessions :
          (/\ sess[s].pc \in {"idle", "rejected"}
           /\ sess'[s].pc \in {"passed", "rejected"}
           /\ sess'[s] # sess[s]) =>
              /\ checkins' = checkins /\ blobs' = blobs /\ nextId' = nextId
              /\ \A d \in Sessions \ {s} : sess'[d] = sess[d]
      ]_vars

\* C5's interleaving: two rows of one user less than 30 minutes apart, the guard
\* of the later one having been evaluated before the earlier one was inserted
C5_Witness ==
    \E a \in checkins, b \in checkins :
        /\ a.id < b.id /\ a.user_id = b.user_id
        /\ guard_of[b.id] <= a.id /\ guard_of[b.id] > 0
        /\ b.created_at - a.created_at < CooldownMin
        /\ a.created_at - b.created_at < CooldownMin

-----------------------------------------------------------------------------
\* The admin panel

Ids(db) == {c.id : c \in db}
RowsLost == Ids(checkins) \ Ids(checkins') # {}
BlobsLost == blobs \ blobs' # {}
\* a move (lines 226-235) takes a key away and adds another; a removal only takes
BlobsDeleted == Cardinality(blobs') < Cardinality(blobs)

\* C1: a commit removes blobs only after the deletion of the selected rows
\* returned without error, and no row that is still in the table after the
\* commit has a photo_path that the commit removed from the bucket.
C1_RowsBeforeBlobs ==
    [][last_run'.kind = "commit" =>
          /\ BlobsLost => /\ last_run'.result \in {"storage_fail", "ok"}
                          /\ \A p \in last_run'.sel : p[1] \notin Ids(checkins')
          /\ \A c \in checkins' : c.photo_path \notin blobs \ blobs']_vars

\* C2: after a commit that failed to_delete is what it was when the button was
\* clicked, and after a commit that succeeded it is empty.
C2_ClearOnSuccessOnly ==
    last_run.kind = "commit" =>
        /\ last_run.result # "ok" => to_delete = last_run.sel
        /\ last_run.result = "ok" => to_delete = {}

\* a commit failed in the bucket, after the rows were deleted, and the selection is kept
C2_Witness ==
    /\ last_run.kind = "commit" /\ last_run.result = "storage_fail"
    /\ to_delete # {} /\ to_delete = last_run.sel
    /\ \A p \in to_delete : p[1] \notin Ids(checkins)

\* C7: after every render a rendered record's pair is in to_delete iff its
\* checkbox is checked; a toggle on followed by a toggle off of the same record
\* leaves to_delete as it was before the two; a run of the script in which no
\* widget, no row and no blob changes leaves to_delete unchanged.
C7_ToggleIdempotent ==
    /\ [](shown # {} =>
            \A p \in shown :
                p \in (IF last_run.kind = "commit" THEN last_run.sel ELSE to_delete)
                    <=> p[1] \in cb)
    /\ [][/\ (/\ last_run.kind = "toggle" /\ last_run.id \in cb
              /\ cb' = cb \ {last_run.id} /\ filt' = filt
              /\ last_run.id \in {p[1] : p \in shown'})
                 => to_delete' = last_run.before
          /\ (/\ cb' = cb /\ filt' = filt /\ ready' = ready
              /\ checkins' = checkins /\ blobs' = blobs)
                 => to_delete' = to_delete]_vars

\* C8: a step that deletes a row or a blob is a commit run in which "Confirmo"
\* is checked and the selection is not empty, the button having been rendered
\* enabled.
C8_NoDeleteWithoutConfirm ==
    [][(RowsLost \/ BlobsDeleted) =>
          /\ last_run'.kind = "commit"
          /\ ready /\ ready' /\ commit_enabled
          /\ last_run'.sel # {}]_vars

\* a confirmed commit of a non-empty selection has deleted its rows and blobs
C8_Witness ==
    /\ last_run.kind = "commit" /\ last_run.result = "ok"
    /\ ready /\ last_run.sel # {}
    /\ \A p \in last_run.sel : p[1] \notin Ids(checkins) /\ p[2] \notin blobs
    /\ \E p \in last_run.sel : p[2] \in used

\* the runs of the admin session in which the panel (lines 365-465) ran
PanelRan ==
    \/ shown' # {} \/ cb' # cb \/ ready' # ready \/ filt' # filt
    \/ commit_enabled' # commit_enabled \/ to_delete' # to_delete
    \/ last_run'.kind \in {"toggle", "commit"}
    \/ RowsLost \/ BlobsLost

\* C9: the panel runs only when the URL carries admin=1 and the session has
\* admin_ok; admin_ok becomes true only by a submitted password equal to a
\* non-empty ADMIN_PASSWORD; admin_ok once true stays true.
C9_AdminGate ==
    [][/\ PanelRan => admin_flag /\ admin_ok'
       /\ (~admin_ok /\ admin_ok') =>
             /\ admin_pwd # ""
             /\ last_run'.kind = "login" /\ last_run'.pwd = admin_pwd
       /\ admin_ok => admin_ok']_vars

\* the panel has rendered records after a login with the configured password
C9_Witness == admin_flag /\ admin_ok /\ admin_pwd # "" /\ shown # {}

\* C10: every record that a commit deletes was displayed with its checkbox
\* checked in the render of that commit's run.
C10_DeletedWereChecked ==
    last_run.kind = "commit" =>
        \A p \in last_run.sel : p[1] \in cb /\ p[1] \in {q[1] : q \in shown}

-----------------------------------------------------------------------------
\* The grouping

\* the (user, day) buckets of the result that hold the record `id`, once for
\* every position it has in a bucket
BucketsOf(grouped, id) ==
    {<<u, d, k>> \in UNION {UNION {{<<u, d, k>> : k \in 1..Len(grouped[u].dias[d])}
                                    : d \in DOMAIN grouped[u].dias}
                            : u \in DOMAIN grouped}
        : grouped[u].dias[d][k].checkin_id = id}

\* the user id of a record: user_id, or else the joined users.id
UidOf(r) == IF r.user_id # Null THEN r.user_id ELSE r.users.id
InputUids == {UidOf(grp_in[i]) : i \in 1..Len(grp_in)} \ {Null}

\* C6, as stated: every record with a user id is in exactly one bucket, that of
\* its user id and of the local day of its created_at, and there are as many
\* top-level groups as distinct user ids.
C6_AsClaimed ==
    grp_out.done =>
        /\ \A i \in 1..Len(grp_in) :
              UidOf(grp_in[i]) # Null =>
                 /\ IsIso(grp_in[i].created_at)
                 /\ BucketsOf(grp_out.grouped, i) =
                       {<<UidOf(grp_in[i]),
                          DayOf(ToLocal(fromisoformat(grp_in[i].created_at))), k>>
                           : k \in {b[3] : b \in BucketsOf(grp_out.grouped, i)}}
                 /\ Cardinality(BucketsOf(grp_out.grouped, i)) = 1
        /\ \A i \in 1..Len(grp_in) : Cardinality(BucketsOf(grp_out.grouped, i)) <= 1
        /\ Cardinality(DOMAIN grp_out.grouped) = Cardinality(InputUids)

\* C6: the same, a record whose created_at does not parse being under the local
\* day of the call, and a record with no user id being in no bucket.
C6_Partition ==
    grp_out.done =>
        /\ \A i \in 1..Len(grp_in) :
              UidOf(grp_in[i]) # Null =>
                 \E k \in 1..Len(grp_in) :
                    BucketsOf(grp_out.grouped, i) =
                       {<<UidOf(grp_in[i]),
                          IF IsIso(grp_in[i].created_at)
                          THEN DayOf(ToLocal(fromisoformat(grp_in[i].created_at)))
                          ELSE DayOf(agora),
                          k>>}
        /\ \A i \in 1..Len(grp_in) :
              UidOf(grp_in[i]) = Null => BucketsOf(grp_out.grouped, i) = {}
        /\ DOMAIN grp_out.grouped = InputUids

\* two users grouped, one record keyed by its joined user, one of a created_at
\* that does not parse
C6_Witness ==
    /\ grp_out.done
    /\ Cardinality(DOMAIN grp_out.grouped) = 2
    /\ \E i \in 1..Len(grp_in) : grp_in[i].user_id = Null /\ UidOf(grp_in[i]) # Null
    /\ \E i \in 1..Len(grp_in) : ~IsIso(grp_in[i].created_at) /\ UidOf(grp_in[i]) # Null

-----------------------------------------------------------------------------
\* The storage reorganisation

\* the rows whose photo_path the call changed in the table
Repathed ==
    {c \in checkins : \E b \in norm_out.before : b.id = c.id /\ b.photo_path # c.photo_path}

\* C11: after normalize_storage_paths returns, whatever call raised, the
\* photo_path of every row names an object that is in the bucket, and the
\* count returned is the number of rows whose photo_path changed in the table.
C11_RowsKeepBlobs ==
    norm_out.done =>
        /\ \A c \in checkins : c.photo_path \in blobs
        /\ norm_out.moved = Cardinality(Repathed)
====
